---- MODULE Spec2Model ----
(***************************************************************************)
(* Policy-gated, self-reconnecting database access layer of dev-mcp:       *)
(*   internal/database/sql_validator.go  (SQLValidator, SQLSecurityPolicy) *)
(*   internal/database/enhanced.go       (EnhancedDB)                      *)
(* Strings are sequences of one-character strings, so that the validator's *)
(* text operations (ToUpper, TrimSpace, Fields, the regular expressions)   *)
(* are computed character by character as the Go code computes them.       *)
(***************************************************************************)
EXTENDS Integers, Sequences, FiniteSets, Bags, TLC

VARIABLES
    cfg,             \* *config.DatabaseConfig handed to NewEnhanced
    ctor,            \* position of NewEnhanced: "start", "failed", "done"
    connected,       \* EnhancedDB.connected
    db,              \* EnhancedDB.db: "nil", "open" or "closed" (installed handle)
    lastError,       \* EnhancedDB.lastError: "nil" or the error recorded
    reconnectTicker, \* EnhancedDB.reconnectTicker: "nil", "running", "stopped"
    stopReconnect,   \* EnhancedDB.stopReconnect: messages buffered (capacity 1)
    sqlValidator,    \* EnhancedDB.sqlValidator: the policy of the validator in use
    mu,              \* EnhancedDB.mu: "free", "w" (write-locked)
    loop,            \* the reconnection goroutine: its position and the pending tick
    callers,         \* the caller threads: a bag of records (operation, position, locals)
    storeUp,         \* environment: is the backing store reachable
    hist,            \* history: what construction and the mode switches did
    vquery,          \* validator harness: the query under validation
    vresult,         \* validator harness: outcome of the last ValidateSQL call
    client           \* the DatabaseClient behind the database_query tool, if there is one

vars == <<cfg, ctor, connected, db, lastError, reconnectTicker, stopReconnect,
          sqlValidator, mu, loop, callers, storeUp, hist, vquery, vresult, client>>

----------------------------------------------------------------------------
(* Characters and words                                                    *)

LowerLetters == <<"a","b","c","d","e","f","g","h","i","j","k","l","m","n","o","p","q","r","s","t","u","v","w","x","y","z">>
UpperLetters == <<"A","B","C","D","E","F","G","H","I","J","K","L","M","N","O","P","Q","R","S","T","U","V","W","X","Y","Z">>

W_SELECT == <<"S","E","L","E","C","T">>
W_SHOW == <<"S","H","O","W">>
W_DESCRIBE == <<"D","E","S","C","R","I","B","E">>
W_EXPLAIN == <<"E","X","P","L","A","I","N">>
W_DELETE == <<"D","E","L","E","T","E">>
W_DROP == <<"D","R","O","P">>
W_UPDATE == <<"U","P","D","A","T","E">>
W_TRUNCATE == <<"T","R","U","N","C","A","T","E">>
W_INSERT == <<"I","N","S","E","R","T">>
W_ALTER == <<"A","L","T","E","R">>
W_CREATE == <<"C","R","E","A","T","E">>
W_GRANT == <<"G","R","A","N","T">>
W_REVOKE == <<"R","E","V","O","K","E">>
W_UNION == <<"U","N","I","O","N">>
W_EXEC == <<"E","X","E","C">>
W_EXECUTE == <<"E","X","E","C","U","T","E">>
W_SP_ == <<"S","P","_">>
W_XP_ == <<"X","P","_">>
W_LOAD_FILE == <<"L","O","A","D","_","F","I","L","E">>
W_INTO == <<"I","N","T","O">>
W_OUTFILE == <<"O","U","T","F","I","L","E">>
W_DUMPFILE == <<"D","U","M","P","F","I","L","E">>
W_BENCHMARK == <<"B","E","N","C","H","M","A","R","K">>
W_SLEEP == <<"S","L","E","E","P">>
W_ALL_OPERATIONS == <<"A","L","L","_","O","P","E","R","A","T","I","O","N","S">>

\* unicode.IsSpace on the characters of the model (strings.TrimSpace, strings.Fields)
IsSpace(c) == c \in {" ", "\t", "\n", "\r", "\f"}

\* the class \s of Go's regexp package: [\t\n\f\r ]
IsReSpace(c) == c \in {" ", "\t", "\n", "\r", "\f"}

\* the class . of Go's regexp package without the s flag: anything but \n
IsReDot(c) == c # "\n"

ToUpperChar(c) ==
    IF \E i \in 1..Len(LowerLetters) : LowerLetters[i] = c
    THEN UpperLetters[CHOOSE i \in 1..Len(LowerLetters) : LowerLetters[i] = c]
    ELSE c

\* strings.ToUpper
ToUpper(s) == [i \in 1..Len(s) |-> ToUpperChar(s[i])]

ToLower(s) ==
    [i \in 1..Len(s) |->
        IF \E k \in 1..Len(UpperLetters) : UpperLetters[k] = s[i]
        THEN LowerLetters[CHOOSE k \in 1..Len(UpperLetters) : UpperLetters[k] = s[i]]
        ELSE s[i]]

\* strings.TrimSpace
TrimSpace(s) ==
    LET idx == {i \in 1..Len(s) : ~IsSpace(s[i])}
    IN  IF idx = {} THEN <<>>
        ELSE LET lo == CHOOSE i \in idx : \A j \in idx : i <= j
                 hi == CHOOSE i \in idx : \A j \in idx : j <= i
             IN  SubSeq(s, lo, hi)

\* does word w occur in s at position i
At(s, i, w) ==
    /\ i >= 1
    /\ i + Len(w) - 1 <= Len(s)
    /\ \A k \in 1..Len(w) : s[i + k - 1] = w[k]

\* strings.Contains / an unanchored literal pattern
Contains(s, w) == \E i \in 1..Len(s) : At(s, i, w)

\* strings.Fields(s)[0], or the empty string when s has no field
FirstField(s) ==
    LET idx == {i \in 1..Len(s) : ~IsSpace(s[i])}
    IN  IF idx = {} THEN <<>>
        ELSE LET lo == CHOOSE i \in idx : \A j \in idx : i <= j
                 ends == {j \in lo..Len(s) : j = Len(s) \/ IsSpace(s[j + 1])}
                 hi == CHOOSE j \in ends : \A k \in ends : j <= k
             IN  SubSeq(s, lo, hi)

\* strings.Join(list, ", ")
RECURSIVE Join(_)
Join(list) ==
    IF list = <<>> THEN <<>>
    ELSE IF Len(list) = 1 THEN list[1]
    ELSE list[1] \o <<",", " ">> \o Join(Tail(list))

----------------------------------------------------------------------------
(* SQLSecurityPolicy and its two constructors                              *)

\* NewSQLValidator: the default (Safe) policy
NewSQLValidator ==
    [AllowedOperations |-> <<W_SELECT, W_SHOW, W_DESCRIBE, W_EXPLAIN>>,
     BlockedOperations |-> <<W_DELETE, W_DROP, W_UPDATE, W_TRUNCATE, W_INSERT,
                             W_ALTER, W_CREATE, W_GRANT, W_REVOKE>>,
     AllowUnsafeMode   |-> FALSE]

\* NewUnsafeSQLValidator: everything allowed
NewUnsafeSQLValidator ==
    [AllowedOperations |-> <<>>,
     BlockedOperations |-> <<>>,
     AllowUnsafeMode   |-> TRUE]

----------------------------------------------------------------------------
(* SQLValidator                                                            *)

\* regexp `--.*$` with ReplaceAllString(query, ""): $ is the end of the text
\* and . stops at a newline, so only a -- with no newline after it matches,
\* and the leftmost such match runs to the end of the text.
RemoveLineComment(s) ==
    LET starts == {i \in 1..Len(s) :
                      /\ At(s, i, <<"-", "-">>)
                      /\ \A k \in (i + 2)..Len(s) : IsReDot(s[k])}
    IN  IF starts = {} THEN s
        ELSE SubSeq(s, 1, (CHOOSE i \in starts : \A j \in starts : i <= j) - 1)

\* end of the match of `/\*.*?\*/` starting at i (0 when there is none): the
\* nearest */ at or after i+2 with no newline in between
BlockCommentEnd(s, i) ==
    IF ~At(s, i, <<"/", "*">>) THEN 0
    ELSE LET ends == {j \in (i + 2)..Len(s) :
                         /\ At(s, j, <<"*", "/">>)
                         /\ \A k \in (i + 2)..(j - 1) : IsReDot(s[k])}
         IN  IF ends = {} THEN 0
             ELSE (CHOOSE j \in ends : \A k \in ends : j <= k) + 1

\* regexp `/\*.*?\*/` with ReplaceAllString(query, ""): leftmost matches,
\* non-overlapping, each removed
RECURSIVE RemoveBlockCommentsFrom(_, _)
RemoveBlockCommentsFrom(s, i) ==
    IF i > Len(s) THEN <<>>
    ELSE LET e == BlockCommentEnd(s, i)
         IN  IF e > 0 THEN RemoveBlockCommentsFrom(s, e + 1)
             ELSE <<s[i]>> \o RemoveBlockCommentsFrom(s, i + 1)

\* SQLValidator.removeComments
removeComments(query) == RemoveBlockCommentsFrom(RemoveLineComment(query), 1)

\* SQLValidator.extractOperation
extractOperation(query) == FirstField(removeComments(query))

\* the alternation with a read-only verb in it
PatternVerbs_WithShow ==
    {W_DELETE, W_DROP, W_UPDATE, W_TRUNCATE, W_INSERT, W_ALTER, W_CREATE, W_SHOW}

\* the alternation (DELETE|DROP|UPDATE|TRUNCATE|INSERT|ALTER|CREATE) of the
\* first two dangerous patterns
PatternVerbs == {W_DELETE, W_DROP, W_UPDATE, W_TRUNCATE, W_INSERT, W_ALTER, W_CREATE}

\* `;\s*(DELETE|DROP|UPDATE|TRUNCATE|INSERT|ALTER|CREATE)`
MatchStacked(s) ==
    \E i \in 1..Len(s) :
        /\ s[i] = ";"
        /\ \E j \in (i + 1)..Len(s) :
              /\ \A k \in (i + 1)..(j - 1) : IsReSpace(s[k])
              /\ \E w \in PatternVerbs : At(s, j, w)

\* `UNION.*?(DELETE|DROP|UPDATE|TRUNCATE|INSERT|ALTER|CREATE)`
MatchUnion(s) ==
    \E i \in 1..Len(s) :
        /\ At(s, i, W_UNION)
        /\ \E j \in (i + 5)..Len(s) :
              /\ \A k \in (i + 5)..(j - 1) : IsReDot(s[k])
              /\ \E w \in PatternVerbs : At(s, j, w)

\* `(EXEC|EXECUTE|SP_|XP_)`
MatchStoredProc(s) ==
    \E w \in {W_EXEC, W_EXECUTE, W_SP_, W_XP_} : Contains(s, w)

\* `INTO\s+OUTFILE` and `INTO\s+DUMPFILE`
MatchIntoFile(s, w) ==
    \E i \in 1..Len(s) :
        /\ At(s, i, W_INTO)
        /\ \E j \in (i + 5)..Len(s) :
              /\ \A k \in (i + 4)..(j - 1) : IsReSpace(s[k])
              /\ At(s, j, w)

\* `(LOAD_FILE|INTO\s+OUTFILE|INTO\s+DUMPFILE)`
MatchFileSystem(s) ==
    \/ Contains(s, W_LOAD_FILE)
    \/ MatchIntoFile(s, W_OUTFILE)
    \/ MatchIntoFile(s, W_DUMPFILE)

\* `(BENCHMARK|SLEEP)`
MatchTiming(s) == Contains(s, W_BENCHMARK) \/ Contains(s, W_SLEEP)

Pass == [kind |-> "pass"]

DangerousPattern(description) ==
    [kind |-> "DangerousPattern", description |-> description]

\* SQLValidator.checkForDangerousPatterns: the first pattern of the list that
\* matches decides the description
checkForDangerousPatterns(query) ==
    IF MatchStacked(query)
    THEN DangerousPattern("multiple statements with dangerous operations")
    ELSE IF MatchUnion(query)
    THEN DangerousPattern("UNION with dangerous operations")
    ELSE IF MatchStoredProc(query)
    THEN DangerousPattern("stored procedure execution")
    ELSE IF MatchFileSystem(query)
    THEN DangerousPattern("file system operations")
    ELSE IF MatchTiming(query)
    THEN DangerousPattern("timing attack functions")
    ELSE Pass

InList(op, list) == \E i \in 1..Len(list) : op = ToUpper(list[i])

\* ValidateSQL without the strings.ToUpper of the query
ValidateSQL_NoUpper(p, query) ==
    IF p.AllowUnsafeMode THEN Pass
    ELSE LET cleanQuery == TrimSpace(query)
             operation == extractOperation(cleanQuery)
         IN  IF cleanQuery = <<>>
             THEN [kind |-> "EmptyQuery"]
             ELSE IF InList(operation, p.BlockedOperations)
             THEN [kind |-> "BlockedOperation", operation |-> operation,
                   allowed |-> Join(p.AllowedOperations)]
             ELSE IF Len(p.AllowedOperations) > 0
                     /\ ~InList(operation, p.AllowedOperations)
             THEN [kind |-> "NotAllowed", operation |-> operation,
                   allowed |-> Join(p.AllowedOperations)]
             ELSE checkForDangerousPatterns(cleanQuery)

\* ValidateSQL with the empty-query check made before the unsafe-mode check
ValidateSQL_EmptyFirst(p, query) ==
    LET cleanQuery == TrimSpace(ToUpper(query))
        operation == extractOperation(cleanQuery)
    IN  IF cleanQuery = <<>>
        THEN [kind |-> "EmptyQuery"]
        ELSE IF p.AllowUnsafeMode THEN Pass
        ELSE IF InList(operation, p.BlockedOperations)
        THEN [kind |-> "BlockedOperation", operation |-> operation,
              allowed |-> Join(p.AllowedOperations)]
        ELSE IF Len(p.AllowedOperations) > 0
                /\ ~InList(operation, p.AllowedOperations)
        THEN [kind |-> "NotAllowed", operation |-> operation,
              allowed |-> Join(p.AllowedOperations)]
        ELSE checkForDangerousPatterns(cleanQuery)

\* ValidateSQL with the dangerous-pattern rules run before the verb checks
ValidateSQL_PatternsFirst(p, query) ==
    IF p.AllowUnsafeMode THEN Pass
    ELSE LET cleanQuery == TrimSpace(ToUpper(query))
             operation == extractOperation(cleanQuery)
         IN  IF cleanQuery = <<>>
             THEN [kind |-> "EmptyQuery"]
             ELSE IF checkForDangerousPatterns(cleanQuery) # Pass
             THEN checkForDangerousPatterns(cleanQuery)
             ELSE IF InList(operation, p.BlockedOperations)
             THEN [kind |-> "BlockedOperation", operation |-> operation,
                   allowed |-> Join(p.AllowedOperations)]
             ELSE IF Len(p.AllowedOperations) > 0
                     /\ ~InList(operation, p.AllowedOperations)
             THEN [kind |-> "NotAllowed", operation |-> operation,
                   allowed |-> Join(p.AllowedOperations)]
             ELSE Pass

\* SQLValidator.ValidateSQL under policy p
ValidateSQL(p, query) ==
    IF p.AllowUnsafeMode THEN Pass
    ELSE LET cleanQuery == TrimSpace(ToUpper(query))
             operation == extractOperation(cleanQuery)
         IN  IF cleanQuery = <<>>
             THEN [kind |-> "EmptyQuery"]
             ELSE IF InList(operation, p.BlockedOperations)
             THEN [kind |-> "BlockedOperation", operation |-> operation,
                   allowed |-> Join(p.AllowedOperations)]
             ELSE IF Len(p.AllowedOperations) > 0
                     /\ ~InList(operation, p.AllowedOperations)
             THEN [kind |-> "NotAllowed", operation |-> operation,
                   allowed |-> Join(p.AllowedOperations)]
             ELSE checkForDangerousPatterns(cleanQuery)

----------------------------------------------------------------------------
(* EnhancedDB: configuration, errors, handles                              *)

NumCallers == 2

\* config.DatabaseConfig: each required field either set or left at its zero value
Configs ==
    [Host : {"", "localhost"}, Port : {0, 3306}, Username : {"", "test"},
     Password : {"", "secret"}, DBName : {"", "test"}]

\* validateConfig without the check of the password
validateConfig_NoPassword(c) ==
    (IF c.Host = "" THEN <<"host">> ELSE <<>>)
    \o (IF c.Port = 0 THEN <<"port">> ELSE <<>>)
    \o (IF c.Username = "" THEN <<"username">> ELSE <<>>)
    \o (IF c.DBName = "" THEN <<"dbname">> ELSE <<>>)

\* EnhancedDB.validateConfig: the list `missing`
validateConfig(c) ==
    (IF c.Host = "" THEN <<"host">> ELSE <<>>)
    \o (IF c.Port = 0 THEN <<"port">> ELSE <<>>)
    \o (IF c.Username = "" THEN <<"username">> ELSE <<>>)
    \o (IF c.Password = "" THEN <<"password">> ELSE <<>>)
    \o (IF c.DBName = "" THEN <<"dbname">> ELSE <<>>)

NoErr == [msg |-> "nil"]
Err(m) == [msg |-> m]
\* fmt.Errorf("SQL security validation failed: %w", err)
ValidationErr(outcome) == [msg |-> "SQL security validation failed", cause |-> outcome]

\* EnhancedDB.IsConnected: the flag, read under the read lock
IsConnected == connected

\* A handle that is no longer installed in edb.db has always been closed first
\* (connect closes the old handle before it opens a new one, Close closes before
\* it clears the field), so a caller's copy of the handle is "cur" (the
\* installed one, open or closed as db says) or "stale" (replaced, closed); it
\* is "none" before the copy is taken and once it is no longer used.
HandleOpen(ref) == ref = "cur" /\ db = "open"

\* a caller's copy of the handle once the installed handle has been replaced
RetireRef(r) == IF r.ref = "cur" THEN [r EXCEPT !.ref = "stale"] ELSE r

RECURSIVE RetireAll(_, _)
RetireAll(B, S) ==
    IF S = {} THEN EmptyBag
    ELSE LET r == CHOOSE x \in S : TRUE
         IN  [x \in {RetireRef(r)} |-> CopiesIn(r, B)] (+) RetireAll(B, S \ {r})

\* the callers when the installed handle is replaced
Retire(B) == RetireAll(B, BagToSet(B))

\* the callers after the caller in state r has moved to state t
Move(B, r, t) == (B (-) SetToBag({r})) (+) SetToBag({t})

\* a caller thread at rest; in a call: the operation, the position in it, the
\* query, the validator the call read ("safe" or "unsafe"), the copy of the
\* handle, the error returned, and (history) the calls made on the handle
Idle == [op |-> "idle", pc |-> "idle", query |-> <<>>, validator |-> "none",
         ref |-> "none", err |-> NoErr, io |-> 0]

\* history: the mode switch that returned last, and whether unsafe mode has
\* ever been enabled
LastSwitch == [last |-> hist.lastSwitch, everEnabled |-> hist.everEnabled]

----------------------------------------------------------------------------
(* The texts of the errors                                                 *)

T_SecurityFailed ==
    <<"S","Q","L"," ","s","e","c","u","r","i","t","y"," ","v","a","l","i","d","a","t",
      "i","o","n"," ","f","a","i","l","e","d">>
T_NotConnectedQuery ==
    <<"d","a","t","a","b","a","s","e"," ","n","o","t"," ","c","o","n","n","e","c","t",
      "e","d"," ","-"," ","q","u","e","r","y",":"," ">>
T_NotConnected ==
    <<"d","a","t","a","b","a","s","e"," ","n","o","t"," ","c","o","n","n","e","c","t",
      "e","d">>
T_ConnectionNil ==
    <<"d","a","t","a","b","a","s","e"," ","c","o","n","n","e","c","t","i","o","n"," ",
      "i","s"," ","n","i","l">>
T_PingFailed ==
    <<"d","a","t","a","b","a","s","e"," ","p","i","n","g"," ","f","a","i","l","e","d">>
T_EmptyQuery ==
    <<"e","m","p","t","y"," ","q","u","e","r","y"," ","n","o","t"," ","a","l","l","o",
      "w","e","d">>
T_Operation ==
    <<"o","p","e","r","a","t","i","o","n"," ","'">>
T_IsBlocked ==
    <<"'"," ","i","s"," ","b","l","o","c","k","e","d"," ","f","o","r"," ","s","e","c",
      "u","r","i","t","y"," ","r","e","a","s","o","n","s","."," ","O","n","l","y"," ",
      "r","e","a","d","-","o","n","l","y"," ","o","p","e","r","a","t","i","o","n","s",
      " ","a","r","e"," ","a","l","l","o","w","e","d",":"," ">>
T_IsNotAllowed ==
    <<"'"," ","i","s"," ","n","o","t"," ","a","l","l","o","w","e","d","."," ","A","l",
      "l","o","w","e","d"," ","o","p","e","r","a","t","i","o","n","s",":"," ">>
T_PatternDetected ==
    <<"d","a","n","g","e","r","o","u","s"," ","S","Q","L"," ","p","a","t","t","e","r",
      "n"," ","d","e","t","e","c","t","e","d",":"," ">>
T_MultipleStatements ==
    <<"m","u","l","t","i","p","l","e"," ","s","t","a","t","e","m","e","n","t","s"," ",
      "w","i","t","h"," ","d","a","n","g","e","r","o","u","s"," ","o","p","e","r","a",
      "t","i","o","n","s">>
T_UnionDangerous ==
    <<"U","N","I","O","N"," ","w","i","t","h"," ","d","a","n","g","e","r","o","u","s",
      " ","o","p","e","r","a","t","i","o","n","s">>
T_StoredProcedure ==
    <<"s","t","o","r","e","d"," ","p","r","o","c","e","d","u","r","e"," ","e","x","e",
      "c","u","t","i","o","n">>
T_FileSystem ==
    <<"f","i","l","e"," ","s","y","s","t","e","m"," ","o","p","e","r","a","t","i","o",
      "n","s">>
T_TimingAttack ==
    <<"t","i","m","i","n","g"," ","a","t","t","a","c","k"," ","f","u","n","c","t","i",
      "o","n","s">>

\* the description of a dangerous pattern, as text
DescriptionText(description) ==
    CASE description = "multiple statements with dangerous operations" -> T_MultipleStatements
      [] description = "UNION with dangerous operations" -> T_UnionDangerous
      [] description = "stored procedure execution" -> T_StoredProcedure
      [] description = "file system operations" -> T_FileSystem
      [] description = "timing attack functions" -> T_TimingAttack

\* err.Error() of the error ValidateSQL returns
ValidationText(outcome) ==
    CASE outcome.kind = "EmptyQuery" -> T_EmptyQuery
      [] outcome.kind = "BlockedOperation" ->
            T_Operation \o outcome.operation \o T_IsBlocked \o outcome.allowed
      [] outcome.kind = "NotAllowed" ->
            T_Operation \o outcome.operation \o T_IsNotAllowed \o outcome.allowed
      [] outcome.kind = "DangerousPattern" ->
            T_PatternDetected \o DescriptionText(outcome.description)

\* fmt.Errorf("database not connected - query: %s", query)
NotConnectedErr(query) == [msg |-> "database not connected - query: ", query |-> query]

\* err.Error() of an error returned by ExecuteQuery or HealthCheck.  The text
\* of an error of the driver is the driver's own and is left empty.
ErrorText(e) ==
    CASE e.msg = "SQL security validation failed" ->
            T_SecurityFailed \o <<":", " ">> \o ValidationText(e.cause)
      [] e.msg = "database not connected - query: " -> T_NotConnectedQuery \o e.query
      [] e.msg = "database not connected" -> T_NotConnected
      [] e.msg = "database connection is nil" -> T_ConnectionNil
      [] e.msg = "database ping failed" -> T_PingFailed
      [] OTHER -> <<>>

\* handleDatabaseQuery: strings.Contains(err.Error(), "SQL security validation failed")
IsSecurityError(e) == Contains(ErrorText(e), T_SecurityFailed)

----------------------------------------------------------------------------
(* Sample queries the callers of the manager submit                        *)

Str_DeleteUser ==
    W_DELETE \o <<" ">> \o <<"F","R","O","M">> \o <<" ">> \o <<"u","s","e","r","s">>
    \o <<" ">> \o <<"W","H","E","R","E">> \o <<" ">> \o <<"i","d"," ","="," ","1">>
Str_ShowTables == W_SHOW \o <<" ">> \o <<"T","A","B","L","E","S">>

SampleQueries == {Str_DeleteUser, Str_ShowTables}

\* a read-only query about a text: SELECT 'SQL security validation failed'
Str_SelectText == W_SELECT \o <<" ", "'">> \o T_SecurityFailed \o <<"'">>

QueryTexts == SampleQueries \cup {Str_SelectText}

\* ValidateSQL on the sample queries under the two policies a manager can hold,
\* computed once
ValidateSQLMemo ==
    [p \in {NewSQLValidator, NewUnsafeSQLValidator}, q \in QueryTexts |->
        ValidateSQL(p, q)]

\* no DatabaseClient has been constructed
NoClient == [db |-> "nil"]

----------------------------------------------------------------------------
(* Construction                                                            *)

Init ==
    /\ cfg \in Configs
    /\ ctor = "start"
    /\ connected = FALSE
    /\ db = "nil"
    /\ lastError = "nil"
    /\ reconnectTicker = "nil"
    /\ stopReconnect = 0
    /\ sqlValidator = NewSQLValidator
    /\ mu = "free"
    /\ loop = [pc |-> "none", tick |-> FALSE]
    /\ callers = [r \in {Idle} |-> NumCallers]
    /\ storeUp \in BOOLEAN
    /\ hist = [ctorConnects |-> 0, lastSwitch |-> "none", everEnabled |-> FALSE,
               closeCalled |-> FALSE, signals |-> 0]
    /\ vquery = <<>>
    /\ vresult = [after |-> "none"]
    /\ client = NoClient

\* NewEnhanced returning the error of a failed initial connect()
NewEnhanced_FailsOnConnect ==
    /\ ctor = "start"
    /\ IF validateConfig(cfg) # <<>>
       THEN /\ ctor' = "failed"
            /\ UNCHANGED <<connected, db, lastError, reconnectTicker, loop, hist>>
       ELSE /\ hist' = [hist EXCEPT !.ctorConnects = @ + 1]
            /\ IF storeUp
               THEN /\ ctor' = "done"
                    /\ db' = "open"
                    /\ connected' = TRUE
                    /\ lastError' = "nil"
                    /\ UNCHANGED <<reconnectTicker, loop>>
               ELSE /\ ctor' = "failed"
                    /\ lastError' = "err"
                    /\ connected' = FALSE
                    /\ UNCHANGED <<db, reconnectTicker, loop>>
    /\ UNCHANGED <<cfg, stopReconnect, sqlValidator, mu, callers, storeUp, vquery, vresult, client>>

\* NewEnhanced: validateConfig, then one connect(); a failed connect starts the
\* reconnection routine and the manager is returned all the same.  Nothing else
\* holds the manager until NewEnhanced returns, so the call is one step; the
\* outcome of connect() is decided by the store at that moment.
NewEnhanced ==
    /\ ctor = "start"
    /\ IF validateConfig(cfg) # <<>>
       THEN /\ ctor' = "failed"
            /\ UNCHANGED <<connected, db, lastError, reconnectTicker, loop, hist>>
       ELSE /\ ctor' = "done"
            /\ hist' = [hist EXCEPT !.ctorConnects = @ + 1]
            /\ IF storeUp
               THEN /\ db' = "open"
                    /\ connected' = TRUE
                    /\ lastError' = "nil"
                    /\ UNCHANGED <<reconnectTicker, loop>>
               ELSE /\ lastError' = "err"
                    /\ connected' = FALSE
                    /\ db' = db
                    /\ reconnectTicker' = "running"
                    /\ loop' = [loop EXCEPT !.pc = "select"]
    /\ UNCHANGED <<cfg, stopReconnect, sqlValidator, mu, callers, storeUp, vquery, vresult, client>>

----------------------------------------------------------------------------
(* The reconnection goroutine of startReconnectRoutine                     *)

\* the ticker sends on reconnectTicker.C (capacity 1) while it is not stopped
Tick ==
    /\ reconnectTicker = "running"
    /\ ~loop.tick
    /\ loop' = [loop EXCEPT !.tick = TRUE]
    /\ UNCHANGED <<cfg, ctor, connected, db, lastError, reconnectTicker, stopReconnect,
                   sqlValidator, mu, callers, storeUp, hist, vquery, vresult, client>>

\* select, case <-edb.reconnectTicker.C
LoopTick ==
    /\ loop.pc = "select"
    /\ loop.tick
    /\ loop' = [loop EXCEPT !.pc = "check", !.tick = FALSE]
    /\ UNCHANGED <<cfg, ctor, connected, db, lastError, reconnectTicker, stopReconnect,
                   sqlValidator, mu, callers, storeUp, hist, vquery, vresult, client>>

\* select, case <-edb.stopReconnect: return, and the deferred ticker Stop
LoopStop ==
    /\ loop.pc = "select"
    /\ stopReconnect > 0
    /\ stopReconnect' = stopReconnect - 1
    /\ loop' = [loop EXCEPT !.pc = "exited"]
    /\ reconnectTicker' = "stopped"
    /\ UNCHANGED <<cfg, ctor, connected, db, lastError, sqlValidator, mu, callers,
                   storeUp, hist, vquery, vresult, client>>

\* the tick handler with its test inverted: if edb.IsConnected() { connect() }
LoopCheck_Inverted ==
    /\ loop.pc = "check"
    /\ mu = "free"
    /\ IF ~IsConnected
       THEN loop' = [loop EXCEPT !.pc = "select"]
       ELSE loop' = [loop EXCEPT !.pc = "connect"]
    /\ UNCHANGED <<cfg, ctor, connected, db, lastError, reconnectTicker, stopReconnect,
                   sqlValidator, mu, callers, storeUp, hist, vquery, vresult, client>>

\* if !edb.IsConnected() { ... connect() ... }; attemptCount is a local of the
\* goroutine that is only written to the log and is left out
LoopCheck ==
    /\ loop.pc = "check"
    /\ mu = "free"
    /\ IF IsConnected
       THEN loop' = [loop EXCEPT !.pc = "select"]
       ELSE loop' = [loop EXCEPT !.pc = "connect"]
    /\ UNCHANGED <<cfg, ctor, connected, db, lastError, reconnectTicker, stopReconnect,
                   sqlValidator, mu, callers, storeUp, hist, vquery, vresult, client>>

\* connect(), first half: take the write lock, close the existing handle
LoopConnectLock ==
    /\ loop.pc = "connect"
    /\ mu = "free"
    /\ mu' = "w"
    /\ db' = IF db = "nil" THEN "nil" ELSE "closed"
    /\ loop' = [loop EXCEPT !.pc = "ping"]
    /\ UNCHANGED <<cfg, ctor, connected, lastError, reconnectTicker, stopReconnect,
                   sqlValidator, callers, storeUp, hist, vquery, vresult, client>>

\* the loop returning once a reconnection has succeeded
LoopConnectPing_ExitOnSuccess ==
    /\ loop.pc = "ping"
    /\ mu = "w"
    /\ mu' = "free"
    /\ IF storeUp
       THEN /\ db' = "open"
            /\ connected' = TRUE
            /\ lastError' = "nil"
            /\ callers' = Retire(callers)
            /\ loop' = [loop EXCEPT !.pc = "exited"]
       ELSE /\ lastError' = "err"
            /\ connected' = FALSE
            /\ loop' = [loop EXCEPT !.pc = "select"]
            /\ UNCHANGED <<db, callers>>
    /\ UNCHANGED <<cfg, ctor, reconnectTicker, stopReconnect, sqlValidator, storeUp,
                   hist, vquery, vresult, client>>

\* connect() putting the default validator back when it installs a new handle
LoopConnectPing_ResetsPolicy ==
    /\ loop.pc = "ping"
    /\ mu = "w"
    /\ mu' = "free"
    /\ IF storeUp
       THEN /\ db' = "open"
            /\ connected' = TRUE
            /\ lastError' = "nil"
            /\ sqlValidator' = NewSQLValidator
            /\ callers' = Retire(callers)
            /\ loop' = [loop EXCEPT !.pc = "select"]
       ELSE /\ lastError' = "err"
            /\ connected' = FALSE
            /\ loop' = [loop EXCEPT !.pc = "select"]
            /\ UNCHANGED <<db, callers, sqlValidator>>
    /\ UNCHANGED <<cfg, ctor, reconnectTicker, stopReconnect, storeUp,
                   hist, vquery, vresult, client>>

\* connect(), second half: open and ping the new handle, install it on success,
\* record the error on failure (a failed sql.Open or a failed ping), unlock
LoopConnectPing ==
    /\ loop.pc = "ping"
    /\ mu = "w"
    /\ mu' = "free"
    /\ IF storeUp
       THEN /\ db' = "open"
            /\ connected' = TRUE
            /\ lastError' = "nil"
            /\ callers' = Retire(callers)
            /\ loop' = [loop EXCEPT !.pc = "select"]
       ELSE /\ lastError' = "err"
            /\ connected' = FALSE
            /\ loop' = [loop EXCEPT !.pc = "select"]
            /\ UNCHANGED <<db, callers>>
    /\ UNCHANGED <<cfg, ctor, reconnectTicker, stopReconnect, sqlValidator, storeUp,
                   hist, vquery, vresult, client>>

----------------------------------------------------------------------------
(* Callers: Query / ExecuteQuery                                           *)

CanCall(r) == ctor = "done" /\ r.pc \in {"idle", "done"}

\* ExecuteQuery with the connection-state check moved before the validation
QueryValidate_ConnFirst(r, q) ==
    /\ CanCall(r)
    /\ mu = "free"
    /\ LET outcome == ValidateSQLMemo[sqlValidator, q]
           call == [Idle EXCEPT !.op = "Query", !.query = q]
           validated == [call EXCEPT !.validator = IF sqlValidator.AllowUnsafeMode
                                                   THEN "unsafe" ELSE "safe"]
       IN  callers' = Move(callers, r,
               IF ~IsConnected
               THEN [call EXCEPT !.pc = "done", !.err = NotConnectedErr(q)]
               ELSE IF outcome.kind # "pass"
               THEN [validated EXCEPT !.pc = "done", !.err = ValidationErr(outcome)]
               ELSE [validated EXCEPT !.pc = "handle"])
    /\ UNCHANGED <<cfg, ctor, connected, db, lastError, reconnectTicker, stopReconnect,
                   sqlValidator, mu, loop, storeUp, hist, vquery, vresult, client>>

\* ExecuteQuery keeping a failed validation as the manager's lastError
QueryValidate_RecordsError(r, q) ==
    /\ CanCall(r)
    /\ LET outcome == ValidateSQLMemo[sqlValidator, q]
           call == [Idle EXCEPT !.op = "Query", !.query = q,
                                !.validator = IF sqlValidator.AllowUnsafeMode
                                              THEN "unsafe" ELSE "safe"]
       IN  /\ callers' = Move(callers, r,
                  IF outcome.kind # "pass"
                  THEN [call EXCEPT !.pc = "done", !.err = ValidationErr(outcome)]
                  ELSE [call EXCEPT !.pc = "isConnected"])
           /\ lastError' = IF outcome.kind # "pass" THEN "err" ELSE lastError
    /\ UNCHANGED <<cfg, ctor, connected, db, reconnectTicker, stopReconnect,
                   sqlValidator, mu, loop, storeUp, hist, vquery, vresult, client>>

\* ExecuteQuery, from its entry to the end of the validation: the validator in
\* use is read and the query validated; a failure is returned at once
QueryValidate(r, q) ==
    /\ CanCall(r)
    /\ LET outcome == ValidateSQLMemo[sqlValidator, q]
           call == [Idle EXCEPT !.op = "Query", !.query = q,
                                !.validator = IF sqlValidator.AllowUnsafeMode
                                              THEN "unsafe" ELSE "safe"]
       IN  callers' = Move(callers, r,
               IF outcome.kind # "pass"
               THEN [call EXCEPT !.pc = "done", !.err = ValidationErr(outcome)]
               ELSE [call EXCEPT !.pc = "isConnected"])
    /\ UNCHANGED <<cfg, ctor, connected, db, lastError, reconnectTicker, stopReconnect,
                   sqlValidator, mu, loop, storeUp, hist, vquery, vresult, client>>

\* if !edb.IsConnected() { return "database not connected" }
QueryIsConnected(r) ==
    /\ r.op = "Query"
    /\ r.pc = "isConnected"
    /\ mu = "free"
    /\ callers' = Move(callers, r,
           IF IsConnected THEN [r EXCEPT !.pc = "handle"]
           ELSE [r EXCEPT !.pc = "done", !.err = NotConnectedErr(r.query)])
    /\ UNCHANGED <<cfg, ctor, connected, db, lastError, reconnectTicker, stopReconnect,
                   sqlValidator, mu, loop, storeUp, hist, vquery, vresult, client>>

\* RLock; db := edb.db; RUnlock; if db == nil { return "database connection is nil" }
QueryHandle(r) ==
    /\ r.op = "Query"
    /\ r.pc = "handle"
    /\ mu = "free"
    /\ callers' = Move(callers, r,
           IF db = "nil"
           THEN [r EXCEPT !.pc = "done", !.err = Err("database connection is nil")]
           ELSE [r EXCEPT !.pc = "exec", !.ref = "cur"])
    /\ UNCHANGED <<cfg, ctor, connected, db, lastError, reconnectTicker, stopReconnect,
                   sqlValidator, mu, loop, storeUp, hist, vquery, vresult, client>>

\* db.Query(query, args...) outside the lock, and Query's reading of the rows:
\* it succeeds on an open handle of a reachable store
QueryExec(r) ==
    /\ r.op = "Query"
    /\ r.pc = "exec"
    /\ callers' = Move(callers, r,
           [r EXCEPT !.pc = "done", !.io = @ + 1, !.ref = "none",
                     !.err = IF HandleOpen(r.ref) /\ storeUp
                             THEN NoErr ELSE Err("driver error")])
    /\ UNCHANGED <<cfg, ctor, connected, db, lastError, reconnectTicker, stopReconnect,
                   sqlValidator, mu, loop, storeUp, hist, vquery, vresult, client>>

----------------------------------------------------------------------------
(* Callers: HealthCheck                                                    *)

\* if !edb.IsConnected() { return "database not connected" }
HealthCheckIsConnected(r) ==
    /\ CanCall(r)
    /\ mu = "free"
    /\ callers' = Move(callers, r,
           IF IsConnected THEN [Idle EXCEPT !.op = "HealthCheck", !.pc = "handle"]
           ELSE [Idle EXCEPT !.op = "HealthCheck", !.pc = "done",
                             !.err = Err("database not connected")])
    /\ UNCHANGED <<cfg, ctor, connected, db, lastError, reconnectTicker, stopReconnect,
                   sqlValidator, mu, loop, storeUp, hist, vquery, vresult, client>>

\* RLock; db := edb.db; RUnlock; if db == nil { return "database connection is nil" }
HealthCheckHandle(r) ==
    /\ r.op = "HealthCheck"
    /\ r.pc = "handle"
    /\ mu = "free"
    /\ callers' = Move(callers, r,
           IF db = "nil"
           THEN [r EXCEPT !.pc = "done", !.err = Err("database connection is nil")]
           ELSE [r EXCEPT !.pc = "ping", !.ref = "cur"])
    /\ UNCHANGED <<cfg, ctor, connected, db, lastError, reconnectTicker, stopReconnect,
                   sqlValidator, mu, loop, storeUp, hist, vquery, vresult, client>>

\* db.PingContext(ctx) outside the lock; after a failure the call still holds
\* its copy of the handle
HealthCheckPing(r) ==
    /\ r.op = "HealthCheck"
    /\ r.pc = "ping"
    /\ callers' = Move(callers, r,
           IF HandleOpen(r.ref) /\ storeUp
           THEN [r EXCEPT !.pc = "done", !.io = @ + 1, !.ref = "none"]
           ELSE [r EXCEPT !.pc = "pingFailed", !.io = @ + 1])
    /\ UNCHANGED <<cfg, ctor, connected, db, lastError, reconnectTicker, stopReconnect,
                   sqlValidator, mu, loop, storeUp, hist, vquery, vresult, client>>

\* HealthCheck returning the ping error without recording it in the manager
HealthCheckFail_NotRecorded(r) ==
    /\ r.op = "HealthCheck"
    /\ r.pc = "pingFailed"
    /\ mu = "free"
    /\ callers' = Move(callers, r,
           [r EXCEPT !.pc = "done", !.ref = "none",
                     !.err = Err("database ping failed")])
    /\ UNCHANGED <<cfg, ctor, connected, lastError, db, reconnectTicker, stopReconnect,
                   sqlValidator, mu, loop, storeUp, hist, vquery, vresult, client>>

\* the ping failed: Lock; connected = false; lastError = err; Unlock; return the error
HealthCheckFail(r) ==
    /\ r.op = "HealthCheck"
    /\ r.pc = "pingFailed"
    /\ mu = "free"
    /\ connected' = FALSE
    /\ lastError' = "err"
    /\ callers' = Move(callers, r,
           [r EXCEPT !.pc = "done", !.ref = "none",
                     !.err = Err("database ping failed")])
    /\ UNCHANGED <<cfg, ctor, db, reconnectTicker, stopReconnect, sqlValidator, mu, loop,
                   storeUp, hist, vquery, vresult, client>>

----------------------------------------------------------------------------
(* Callers: Close                                                          *)

\* history: one more send on stopReconnect (none, one, more than one)
Signalled(h) == [h EXCEPT !.signals = IF @ = 0 THEN 1 ELSE 2]

\* Close, up to the lock: if edb.reconnectTicker != nil { edb.stopReconnect <- true;
\* edb.reconnectTicker.Stop() }.  stopReconnect has room for one value; with
\* the slot taken the caller waits in the send.
CloseSignal(r) ==
    /\ CanCall(r)
    /\ IF reconnectTicker = "nil"
       THEN /\ callers' = Move(callers, r, [Idle EXCEPT !.op = "Close", !.pc = "lock"])
            /\ hist' = [hist EXCEPT !.closeCalled = TRUE]
            /\ UNCHANGED <<stopReconnect, reconnectTicker>>
       ELSE IF stopReconnect = 0
       THEN /\ stopReconnect' = 1
            /\ reconnectTicker' = "stopped"
            /\ callers' = Move(callers, r, [Idle EXCEPT !.op = "Close", !.pc = "lock"])
            /\ hist' = Signalled([hist EXCEPT !.closeCalled = TRUE])
       ELSE /\ callers' = Move(callers, r, [Idle EXCEPT !.op = "Close", !.pc = "send"])
            /\ hist' = [hist EXCEPT !.closeCalled = TRUE]
            /\ UNCHANGED <<stopReconnect, reconnectTicker>>
    /\ UNCHANGED <<cfg, ctor, connected, db, lastError, sqlValidator, mu, loop, storeUp,
                   vquery, vresult, client>>

\* the send of a Close that had to wait goes through once the slot is free,
\* then edb.reconnectTicker.Stop()
CloseSend(r) ==
    /\ r.op = "Close"
    /\ r.pc = "send"
    /\ stopReconnect = 0
    /\ stopReconnect' = 1
    /\ reconnectTicker' = "stopped"
    /\ callers' = Move(callers, r, [r EXCEPT !.pc = "lock"])
    /\ hist' = Signalled(hist)
    /\ UNCHANGED <<cfg, ctor, connected, db, lastError, sqlValidator, mu, loop, storeUp,
                   vquery, vresult, client>>

\* Close leaving the connected flag as it was
CloseHandle_KeepsConnected(r) ==
    /\ r.op = "Close"
    /\ r.pc = "lock"
    /\ mu = "free"
    /\ IF db # "nil"
       THEN /\ db' = "nil"
            /\ callers' = Move(Retire(callers), r, [r EXCEPT !.pc = "done"])
       ELSE /\ db' = db
            /\ callers' = Move(callers, r, [r EXCEPT !.pc = "done"])
    /\ UNCHANGED <<cfg, ctor, connected, lastError, reconnectTicker, stopReconnect,
                   sqlValidator, mu, loop, storeUp, hist, vquery, vresult, client>>

\* Lock; if edb.db != nil { edb.db.Close(); edb.db = nil; edb.connected = false }; Unlock
CloseHandle(r) ==
    /\ r.op = "Close"
    /\ r.pc = "lock"
    /\ mu = "free"
    /\ IF db # "nil"
       THEN /\ db' = "nil"
            /\ connected' = FALSE
            /\ callers' = Move(Retire(callers), r, [r EXCEPT !.pc = "done"])
       ELSE /\ UNCHANGED <<db, connected>>
            /\ callers' = Move(callers, r, [r EXCEPT !.pc = "done"])
    /\ UNCHANGED <<cfg, ctor, lastError, reconnectTicker, stopReconnect, sqlValidator, mu,
                   loop, storeUp, hist, vquery, vresult, client>>

----------------------------------------------------------------------------
(* Mode switches and the policy getters                                    *)

\* history: the mode switch that returned last
Remember(h, s) ==
    [h EXCEPT !.lastSwitch = s, !.everEnabled = @ \/ (s = "enable")]

\* EnhancedDB.EnableUnsafeMode
EnableUnsafeMode ==
    /\ ctor = "done"
    /\ sqlValidator' = NewUnsafeSQLValidator
    /\ hist' = Remember(hist, "enable")
    /\ UNCHANGED <<cfg, ctor, connected, db, lastError, reconnectTicker, stopReconnect,
                   mu, loop, callers, storeUp, vquery, vresult, client>>

\* DisableUnsafeMode leaving the unsafe validator in place
DisableUnsafeMode_StaysUnsafe ==
    /\ ctor = "done"
    /\ sqlValidator' = sqlValidator
    /\ hist' = Remember(hist, "disable")
    /\ UNCHANGED <<cfg, ctor, connected, db, lastError, reconnectTicker, stopReconnect,
                   mu, loop, callers, storeUp, vquery, vresult, client>>

\* GetAllowedOperations without the unsafe-mode case
GetAllowedOperations_ListOnly == sqlValidator.AllowedOperations

\* EnhancedDB.DisableUnsafeMode
DisableUnsafeMode ==
    /\ ctor = "done"
    /\ sqlValidator' = NewSQLValidator
    /\ hist' = Remember(hist, "disable")
    /\ UNCHANGED <<cfg, ctor, connected, db, lastError, reconnectTicker, stopReconnect,
                   mu, loop, callers, storeUp, vquery, vresult, client>>

\* EnhancedDB.IsUnsafeModeEnabled
IsUnsafeModeEnabled == sqlValidator.AllowUnsafeMode

\* EnhancedDB.GetAllowedOperations
GetAllowedOperations ==
    IF sqlValidator.AllowUnsafeMode THEN <<W_ALL_OPERATIONS>>
    ELSE sqlValidator.AllowedOperations

\* EnhancedDB.GetBlockedOperations
GetBlockedOperations ==
    IF sqlValidator.AllowUnsafeMode THEN <<>>
    ELSE sqlValidator.BlockedOperations

----------------------------------------------------------------------------
(* The validator on its own: edb.sqlValidator.ValidateSQL(query) for a query *)
(* drawn from a bounded set of texts, between mode switches                  *)

MaxTail == 1

\* first letter upper case, the rest lower case
Capitalize(s) == <<s[1]>> \o ToLower(Tail(s))

AllowedVerbs == {W_SELECT, W_SHOW, W_DESCRIBE, W_EXPLAIN}
BlockedVerbs == {W_DELETE, W_DROP, W_UPDATE, W_TRUNCATE, W_INSERT, W_ALTER,
                 W_CREATE, W_GRANT, W_REVOKE}

\* what a query may start with: nothing, white space, a comment on one line
\* or over two
Leads == {<<>>, <<" ">>, <<"\n", "\t", " ">>,
          <<"/", "*", "c", "*", "/", " ">>, <<"-", "-", "c", "\n">>,
          <<"/", "*", "\n", "c", "*", "/", " ">>}

\* the leading word: every verb of the Safe policy in upper case and
\* capitalized, a verb in neither list, words that only start like a verb, and
\* no word at all
LeadWords ==
    UNION {{w, Capitalize(w)} : w \in AllowedVerbs \cup BlockedVerbs}
    \cup {<<"C", "A", "L", "L">>, W_DROP \o <<"S">>, W_SELECT \o <<";">>, <<>>}

W_FROM == <<"F","R","O","M">>
W_TABLE == <<"T","A","B","L","E">>

\* what the rest of the query is made of
TailFrags ==
    {<<" ">> \o W_FROM \o <<" ", "u">>,
     <<" ", "*", " ">> \o W_FROM \o <<" ", "a", " ">> \o W_UNION \o <<" ">> \o W_SELECT \o <<" ", "b">>,
     <<" ", "1", " ">> \o W_UNION \o <<" ">> \o W_SELECT \o <<" ">> \o ToLower(W_CREATE) \o <<"d">>,
     <<";", " ">> \o W_DROP \o <<" ">> \o W_TABLE \o <<" ", "u", ";">>,
     <<" ", "1", ";", "\n">> \o ToLower(W_SHOW) \o <<" ">> \o W_TABLE \o <<"S">>,
     <<";">> \o W_GRANT \o <<" ", "x">>,
     <<" ", "1", ";", " ">> \o Capitalize(W_REVOKE) \o <<" ", "x">>,
     <<" ", "1", " ">> \o W_UNION \o <<"\n">> \o W_DROP \o <<" ", "x">>,
     <<" ", "1", " ">> \o ToLower(W_UNION) \o <<" ">> \o W_GRANT \o <<" ", "x">>,
     <<" ", "-", "-", " ">> \o W_SLEEP,
     <<" ", "/", "*", ";">> \o W_DROP \o <<"*", "/">>,
     <<" ">> \o W_LOAD_FILE \o <<"(", "x", ")">>,
     <<" ">> \o ToLower(W_EXEC) \o <<"u", "t", "e", "d">>,
     <<"\n", "x">>,
     <<";">>}

RECURSIVE TailsOf(_)
TailsOf(n) ==
    IF n = 0 THEN {<<>>}
    ELSE LET shorter == TailsOf(n - 1)
         IN  shorter \cup {t \o f : t \in shorter, f \in TailFrags}

Queries ==
    {l \o w \o t : l \in Leads, w \in LeadWords, t \in TailsOf(MaxTail)}
    \cup SampleQueries

\* the queries of the mode-switch harness: every blocked verb and a read-only
\* one after every lead, and the sample queries
ModeQueries ==
    {l \o w \o <<" ">> \o W_FROM \o <<" ", "u">> :
        l \in Leads, w \in BlockedVerbs \cup {W_SHOW}}
    \cup SampleQueries

\* a manager as NewEnhanced returns it when the store is unreachable (the demo
\* of the validator runs on such a manager)
ManagerDisconnected ==
    /\ cfg = [Host |-> "localhost", Port |-> 3306, Username |-> "test",
              Password |-> "secret", DBName |-> "test"]
    /\ ctor = "done"
    /\ connected = FALSE
    /\ db = "nil"
    /\ lastError = "err"
    /\ reconnectTicker = "running"
    /\ stopReconnect = 0
    /\ mu = "free"
    /\ loop = [pc |-> "select", tick |-> FALSE]
    /\ callers = [r \in {Idle} |-> NumCallers]
    /\ storeUp = FALSE

\* the validator harness: the manager in Safe mode or after EnableUnsafeMode,
\* and a query to validate
InitV ==
    /\ ManagerDisconnected
    /\ \E unsafe \in BOOLEAN :
          /\ sqlValidator = IF unsafe THEN NewUnsafeSQLValidator ELSE NewSQLValidator
          /\ hist = [ctorConnects |-> 1,
                     lastSwitch |-> IF unsafe THEN "enable" ELSE "none",
                     everEnabled |-> unsafe, closeCalled |-> FALSE, signals |-> 0]
    /\ vquery \in Queries
    /\ vresult = [after |-> "none"]
    /\ client = NoClient

\* the mode-switch harness: the manager as constructed, and a query to validate
InitMode ==
    /\ ManagerDisconnected
    /\ sqlValidator = NewSQLValidator
    /\ hist = [ctorConnects |-> 1, lastSwitch |-> "none", everEnabled |-> FALSE,
               closeCalled |-> FALSE, signals |-> 0]
    /\ vquery \in ModeQueries
    /\ vresult = [after |-> "none"]
    /\ client = NoClient

\* validator := db.GetSQLValidator(); err := validator.ValidateSQL(query)
\* vresult keeps the outcome with the validator that gave it and (history) the
\* mode switch that had returned last
Validate ==
    /\ ctor = "done"
    /\ vresult' = [after |-> LastSwitch,
                   unsafe |-> sqlValidator.AllowUnsafeMode,
                   outcome |-> ValidateSQL(sqlValidator, vquery)]
    /\ UNCHANGED <<cfg, ctor, connected, db, lastError, reconnectTicker, stopReconnect,
                   sqlValidator, mu, loop, callers, storeUp, hist, vquery, client>>

SpecV == InitV /\ [][Validate]_vars

NextMode ==
    \/ Validate
    \/ EnableUnsafeMode
    \/ DisableUnsafeMode

SpecMode == InitMode /\ [][NextMode]_vars

\* policies a validator can be given with SetPolicy, unsafe mode off: the
\* default one, one whose lists overlap and hold a lower-case entry, and one
\* with no allowed list
Policies ==
    {NewSQLValidator,
     [AllowedOperations |-> <<W_SELECT, W_DELETE>>,
      BlockedOperations |-> <<W_DELETE, ToLower(W_DROP)>>,
      AllowUnsafeMode   |-> FALSE],
     [AllowedOperations |-> <<>>,
      BlockedOperations |-> <<W_DROP>>,
      AllowUnsafeMode   |-> FALSE]}

\* the queries of the policy harness: every leading word, bare, after white
\* space and after a comment, followed by at most one fragment; white space alone
PolicyQueries ==
    {l \o w \o t : l \in {<<>>, <<" ">>, <<"/", "*", "c", "*", "/", " ">>},
                   w \in LeadWords, t \in {<<>>} \cup TailFrags}
    \cup {<<" ", "\t", "\n">>}

\* the policy harness: a validator after SetPolicy(p), and a query to validate
InitPolicy ==
    /\ ManagerDisconnected
    /\ sqlValidator \in Policies
    /\ hist = [ctorConnects |-> 1, lastSwitch |-> "none", everEnabled |-> FALSE,
               closeCalled |-> FALSE, signals |-> 0]
    /\ vquery \in PolicyQueries
    /\ vresult = [after |-> "none"]
    /\ client = NoClient

SpecPolicy == InitPolicy /\ [][Validate]_vars

----------------------------------------------------------------------------
(* DatabaseClient: the client behind the database_query tool               *)

Digits == {"0", "1", "2", "3", "4", "5", "6", "7", "8", "9"}

\* the class \w of Go's regexp package: [0-9A-Za-z_]
IsWordChar(c) ==
    \/ c \in Digits
    \/ c = "_"
    \/ \E i \in 1..Len(LowerLetters) : c = LowerLetters[i] \/ c = UpperLetters[i]

\* regexp `^\s*(\w+)`, the submatch: the word characters after the leading
\* white space, or the empty text when the pattern does not match
FirstWord(s) ==
    LET from == {i \in 1..Len(s) : ~IsReSpace(s[i])}
    IN  IF from = {} THEN <<>>
        ELSE LET lo == CHOOSE i \in from : \A j \in from : i <= j
                 stops == {j \in lo..(Len(s) + 1) : j = Len(s) + 1 \/ ~IsWordChar(s[j])}
                 hi == CHOOSE j \in stops : \A k \in stops : j <= k
             IN  SubSeq(s, lo, hi - 1)

\* strings.Split(s, ";")
SplitSemicolon(s) ==
    LET cuts == {0} \cup {i \in 1..Len(s) : s[i] = ";"} \cup {Len(s) + 1}
    IN  {SubSeq(s, i + 1, j - 1) :
            <<i, j>> \in {c \in cuts \X cuts :
                             c[1] < c[2] /\ ~\E k \in cuts : c[1] < k /\ k < c[2]}}

\* a pattern `A.*B`: A, then any text without a newline, then B
MatchThen(s, a, b) ==
    \E i \in 1..Len(s) :
        /\ At(s, i, a)
        /\ \E j \in (i + Len(a))..Len(s) :
              /\ \A k \in (i + Len(a))..(j - 1) : IsReDot(s[k])
              /\ At(s, j, b)

W_SET == <<"S","E","T">>

\* the list dangerousPatterns of hasDangerousPatterns
ClientPatterns ==
    {<<W_UNION, W_SELECT>>, <<W_DROP, W_TABLE>>, <<W_DELETE, W_FROM>>,
     <<W_INSERT, W_INTO>>, <<W_UPDATE, W_SET>>, <<W_TRUNCATE, W_TABLE>>,
     <<W_ALTER, W_TABLE>>, <<W_CREATE, W_TABLE>>, <<W_EXEC, W_SP_>>,
     <<W_EXECUTE, W_SP_>>}

\* DatabaseClient.hasDangerousPatterns
hasDangerousPatterns(c, query) ==
    LET q == ToUpper(query)
    IN  \/ Contains(q, <<"/", "*">>)
        \/ Contains(q, <<"-", "-">>)
        \/ /\ Contains(q, <<";">>)
           /\ \E part \in SplitSemicolon(q) :
                 /\ TrimSpace(part) # <<>>
                 /\ InList(ToUpper(FirstWord(TrimSpace(part))), c.blockedOps)
        \/ \E p \in ClientPatterns : MatchThen(q, p[1], p[2])

\* DatabaseClient.validateQuery
validateQuery(c, query) ==
    LET q == TrimSpace(query)
        operation == ToUpper(FirstWord(q))
    IN  IF q = <<>> THEN [kind |-> "EmptyQuery"]
        ELSE IF FirstWord(q) = <<>> THEN [kind |-> "InvalidFormat"]
        ELSE IF c.unsafeMode THEN Pass
        ELSE IF hasDangerousPatterns(c, q) THEN [kind |-> "DangerousPattern"]
        ELSE IF InList(operation, c.allowedOps) THEN Pass
        ELSE IF InList(operation, c.blockedOps)
        THEN [kind |-> "BlockedOperation", operation |-> operation]
        ELSE Pass

\* NewDatabaseClient, when it returns a client
NewDatabaseClient ==
    [db |-> "open", unsafeMode |-> FALSE,
     allowedOps |-> <<W_SELECT, W_SHOW, W_DESCRIBE, W_EXPLAIN>>,
     blockedOps |-> <<W_INSERT, W_UPDATE, W_DELETE, W_DROP, W_TRUNCATE, W_ALTER,
                      W_CREATE>>]

\* the client harness: a client as constructed and a query for the tool
InitClient ==
    /\ ManagerDisconnected
    /\ sqlValidator = NewSQLValidator
    /\ hist = [ctorConnects |-> 1, lastSwitch |-> "none", everEnabled |-> FALSE,
               closeCalled |-> FALSE, signals |-> 0]
    /\ vquery \in Queries
    /\ vresult = [after |-> "none"]
    /\ client = NewDatabaseClient

\* DatabaseClient.Query, under the read lock from its entry to its return:
\* validateQuery, then c.db.Query on the handle.  `last` keeps the mode the
\* call ran in, the outcome of the validation, whether the handle was used and
\* whether an error came back.
ClientQuery ==
    /\ client.db # "nil"
    /\ LET outcome == validateQuery(client, vquery)
       IN  client' = [db |-> client.db, unsafeMode |-> client.unsafeMode,
                      allowedOps |-> client.allowedOps,
                      blockedOps |-> client.blockedOps,
                      last |-> [unsafe |-> client.unsafeMode,
                                outcome |-> outcome,
                                used |-> outcome = Pass,
                                failed |-> outcome # Pass \/ client.db # "open"]]
    /\ UNCHANGED <<cfg, ctor, connected, db, lastError, reconnectTicker, stopReconnect,
                   sqlValidator, mu, loop, callers, storeUp, hist, vquery, vresult>>

\* DatabaseClient.EnableUnsafeMode, under the write lock
ClientEnableUnsafeMode ==
    /\ client.db # "nil"
    /\ client' = [client EXCEPT !.unsafeMode = TRUE]
    /\ UNCHANGED <<cfg, ctor, connected, db, lastError, reconnectTicker, stopReconnect,
                   sqlValidator, mu, loop, callers, storeUp, hist, vquery, vresult>>

\* DatabaseClient.DisableUnsafeMode, under the write lock
ClientDisableUnsafeMode ==
    /\ client.db # "nil"
    /\ client' = [client EXCEPT !.unsafeMode = FALSE]
    /\ UNCHANGED <<cfg, ctor, connected, db, lastError, reconnectTicker, stopReconnect,
                   sqlValidator, mu, loop, callers, storeUp, hist, vquery, vresult>>

\* DatabaseClient.Close: the handle is closed and stays in c.db
ClientClose ==
    /\ client.db # "nil"
    /\ client' = [client EXCEPT !.db = "closed"]
    /\ UNCHANGED <<cfg, ctor, connected, db, lastError, reconnectTicker, stopReconnect,
                   sqlValidator, mu, loop, callers, storeUp, hist, vquery, vresult>>

\* DatabaseClient.GetBlockedOperations, under the read lock: a copy of
\* c.blockedOps (the field is never nil in a client NewDatabaseClient returned)
ClientGetBlockedOperations == client.blockedOps

NextClient ==
    \/ ClientQuery
    \/ ClientEnableUnsafeMode
    \/ ClientDisableUnsafeMode
    \/ ClientClose

SpecClient == InitClient /\ [][NextClient]_vars

----------------------------------------------------------------------------
(* Environment and the specifications                                      *)

\* the backing store becomes reachable or unreachable
StoreFlip ==
    /\ storeUp' = ~storeUp
    /\ UNCHANGED <<cfg, ctor, connected, db, lastError, reconnectTicker, stopReconnect,
                   sqlValidator, mu, loop, callers, hist, vquery, vresult, client>>

Next ==
    \/ NewEnhanced
    \/ Tick
    \/ LoopTick
    \/ LoopStop
    \/ LoopCheck
    \/ LoopConnectLock
    \/ LoopConnectPing
    \/ \E r \in BagToSet(callers), q \in SampleQueries : QueryValidate(r, q)
    \/ \E r \in BagToSet(callers) : QueryIsConnected(r)
    \/ \E r \in BagToSet(callers) : QueryHandle(r)
    \/ \E r \in BagToSet(callers) : QueryExec(r)
    \/ \E r \in BagToSet(callers) : HealthCheckIsConnected(r)
    \/ \E r \in BagToSet(callers) : HealthCheckHandle(r)
    \/ \E r \in BagToSet(callers) : HealthCheckPing(r)
    \/ \E r \in BagToSet(callers) : HealthCheckFail(r)
    \/ \E r \in BagToSet(callers) : CloseSignal(r)
    \/ \E r \in BagToSet(callers) : CloseSend(r)
    \/ \E r \in BagToSet(callers) : CloseHandle(r)
    \/ EnableUnsafeMode
    \/ DisableUnsafeMode
    \/ StoreFlip

Spec == Init /\ [][Next]_vars

\* The connection life cycle alone: construction, the reconnection goroutine,
\* HealthCheck, Close and the store.  The goroutine is scheduled and its ticker
\* keeps firing until it is stopped, hence weak fairness of their steps; the
\* callers and the store are under no obligation.
NextConn ==
    \/ NewEnhanced
    \/ Tick
    \/ LoopTick
    \/ LoopStop
    \/ LoopCheck
    \/ LoopConnectLock
    \/ LoopConnectPing
    \/ \E r \in BagToSet(callers) : HealthCheckIsConnected(r)
    \/ \E r \in BagToSet(callers) : HealthCheckHandle(r)
    \/ \E r \in BagToSet(callers) : HealthCheckPing(r)
    \/ \E r \in BagToSet(callers) : HealthCheckFail(r)
    \/ \E r \in BagToSet(callers) : CloseSignal(r)
    \/ \E r \in BagToSet(callers) : CloseSend(r)
    \/ \E r \in BagToSet(callers) : CloseHandle(r)
    \/ StoreFlip

\* Queries of any text, HealthCheck, the reconnection goroutine and the store
NextQuery ==
    \/ NewEnhanced
    \/ Tick
    \/ LoopTick
    \/ LoopCheck
    \/ LoopConnectLock
    \/ LoopConnectPing
    \/ \E r \in BagToSet(callers), q \in QueryTexts : QueryValidate(r, q)
    \/ \E r \in BagToSet(callers) : QueryIsConnected(r)
    \/ \E r \in BagToSet(callers) : QueryHandle(r)
    \/ \E r \in BagToSet(callers) : QueryExec(r)
    \/ \E r \in BagToSet(callers) : HealthCheckIsConnected(r)
    \/ \E r \in BagToSet(callers) : HealthCheckHandle(r)
    \/ \E r \in BagToSet(callers) : HealthCheckPing(r)
    \/ \E r \in BagToSet(callers) : HealthCheckFail(r)
    \/ StoreFlip

SpecQuery == Init /\ [][NextQuery]_vars

\* Queries between mode switches, with the reconnection goroutine and the store
NextQueryMode ==
    \/ NewEnhanced
    \/ Tick
    \/ LoopTick
    \/ LoopCheck
    \/ LoopConnectLock
    \/ LoopConnectPing
    \/ \E r \in BagToSet(callers), q \in SampleQueries : QueryValidate(r, q)
    \/ \E r \in BagToSet(callers) : QueryIsConnected(r)
    \/ \E r \in BagToSet(callers) : QueryHandle(r)
    \/ \E r \in BagToSet(callers) : QueryExec(r)
    \/ EnableUnsafeMode
    \/ DisableUnsafeMode
    \/ StoreFlip

SpecQueryMode == Init /\ [][NextQueryMode]_vars

LoopFairness ==
    /\ WF_vars(Tick)
    /\ WF_vars(LoopTick)
    /\ WF_vars(LoopStop)
    /\ WF_vars(LoopCheck)
    /\ WF_vars(LoopConnectLock)
    /\ WF_vars(LoopConnectPing)

SpecConn == Init /\ [][NextConn]_vars /\ LoopFairness

\* The connection life cycle between mode switches
NextConnMode ==
    \/ NewEnhanced
    \/ Tick
    \/ LoopTick
    \/ LoopStop
    \/ LoopCheck
    \/ LoopConnectLock
    \/ LoopConnectPing
    \/ \E r \in BagToSet(callers) : HealthCheckIsConnected(r)
    \/ \E r \in BagToSet(callers) : HealthCheckHandle(r)
    \/ \E r \in BagToSet(callers) : HealthCheckPing(r)
    \/ \E r \in BagToSet(callers) : HealthCheckFail(r)
    \/ \E r \in BagToSet(callers) : CloseSignal(r)
    \/ \E r \in BagToSet(callers) : CloseSend(r)
    \/ \E r \in BagToSet(callers) : CloseHandle(r)
    \/ StoreFlip
    \/ EnableUnsafeMode
    \/ DisableUnsafeMode

SpecConnMode == Init /\ [][NextConnMode]_vars

----------------------------------------------------------------------------
(* Properties                                                              *)

\* the policy of the validator a call read
PolicyRead(r) ==
    IF r.validator = "unsafe" THEN NewUnsafeSQLValidator ELSE NewSQLValidator

\* C1: every Query call has validated its query before anything else, and when
\* ValidateSQL fails under the policy the call read, the call is over, it
\* returned that validation error (wrapped), it made no call on the handle and
\* never took a copy of it, whether the manager is Connected or Disconnected.
C1_ValidationBeforeIO ==
    \A r \in BagToSet(callers) :
        r.op = "Query" =>
            /\ r.validator \in {"safe", "unsafe"}
            /\ LET outcome == ValidateSQLMemo[PolicyRead(r), r.query]
               IN  outcome.kind # "pass" =>
                       /\ r.pc = "done"
                       /\ r.err = ValidationErr(outcome)
                       /\ r.io = 0
                       /\ r.ref = "none"

\* a Connected manager with an open handle has returned a validation error
\* to a Query, and no call reached the handle
C1_Witness ==
    /\ connected
    /\ db = "open"
    /\ storeUp
    /\ \E r \in BagToSet(callers) :
          /\ r.op = "Query"
          /\ r.pc = "done"
          /\ r.query = Str_DeleteUser
          /\ r.err.msg = "SQL security validation failed"
          /\ r.err.cause.kind = "BlockedOperation"
          /\ r.io = 0

\* the leading verb of a query: its first white-space-delimited word, in upper case
LeadingVerb(q) == FirstField(ToUpper(q))

\* the text "SELECT, SHOW, DESCRIBE, EXPLAIN"
SafeAllowedText ==
    W_SELECT \o <<",", " ">> \o W_SHOW \o <<",", " ">> \o W_DESCRIBE
    \o <<",", " ">> \o W_EXPLAIN

Validated == DOMAIN vresult = {"after", "unsafe", "outcome"}

\* C2: under the Safe policy a query whose leading verb is DELETE, DROP,
\* UPDATE, TRUNCATE, INSERT, ALTER, CREATE, GRANT or REVOKE, in any letter case
\* and after any leading white space, fails ValidateSQL with BlockedOperation,
\* and the outcome names that verb and the allowed verbs.
C2_BlockedVerbFails ==
    (Validated /\ ~vresult.unsafe /\ LeadingVerb(vquery) \in BlockedVerbs) =>
        /\ vresult.outcome.kind = "BlockedOperation"
        /\ vresult.outcome.operation = LeadingVerb(vquery)
        /\ vresult.outcome.allowed = SafeAllowedText

\* a capitalized blocked verb after leading white space has been rejected
C2_Witness ==
    /\ Validated
    /\ ~vresult.unsafe
    /\ Len(vquery) > 0
    /\ vquery[1] = "\n"
    /\ LeadingVerb(vquery) = W_REVOKE
    /\ vquery # ToUpper(vquery)
    /\ vresult.outcome.kind = "BlockedOperation"

\* one of the five dangerous-pattern rules matches the text
MatchesDangerousPattern(s) ==
    \/ MatchStacked(s)
    \/ MatchUnion(s)
    \/ MatchStoredProc(s)
    \/ MatchFileSystem(s)
    \/ MatchTiming(s)

\* the statements of a text: the pieces between its semicolons
StatementStarts(s) == {1} \cup {i + 1 : i \in {j \in 1..Len(s) : s[j] = ";"}}
StatementAt(s, i) ==
    LET semis == {j \in i..Len(s) : s[j] = ";"}
    IN  IF semis = {} THEN SubSeq(s, i, Len(s))
        ELSE SubSeq(s, i, (CHOOSE j \in semis : \A k \in semis : j <= k) - 1)
Statements(s) == {StatementAt(s, i) : i \in StatementStarts(s)}

\* a text made only of read-only statements separated by semicolons
ReadOnlyStatements(s) ==
    \A st \in Statements(s) : FirstField(st) \in AllowedVerbs \cup {<<>>}

\* one of the statements after a semicolon starts with a blocked verb
StatementStartsBlocked(s) ==
    \E i \in StatementStarts(s) \ {1} :
        \E w \in BlockedVerbs : At(TrimSpace(StatementAt(s, i)), 1, w)

\* C3: under the Safe policy a query whose leading verb is SELECT, SHOW,
\* DESCRIBE or EXPLAIN and that matches none of the dangerous-pattern rules
\* passes ValidateSQL; the stacked-statement rule matches only a text one of
\* whose statements after a semicolon starts with a blocked verb, so it never
\* matches a text made only of read-only statements.
C3_ReadOnlyPasses ==
    (Validated /\ ~vresult.unsafe) =>
        LET text == ToUpper(vquery)
        IN  /\ (LeadingVerb(vquery) \in AllowedVerbs /\ ~MatchesDangerousPattern(text))
                   => vresult.outcome = Pass
            /\ MatchStacked(text) => StatementStartsBlocked(text)
            /\ ReadOnlyStatements(text) => ~MatchStacked(text)
            /\ (/\ ReadOnlyStatements(text)
                /\ LeadingVerb(vquery) \in AllowedVerbs
                /\ ~MatchUnion(text) /\ ~MatchStoredProc(text)
                /\ ~MatchFileSystem(text) /\ ~MatchTiming(text))
                   => vresult.outcome = Pass

\* two read-only statements separated by a semicolon have passed
C3_Witness ==
    /\ Validated
    /\ ~vresult.unsafe
    /\ vresult.outcome = Pass
    /\ LeadingVerb(vquery) = W_SELECT
    /\ ReadOnlyStatements(ToUpper(vquery))
    /\ \E st \in Statements(ToUpper(vquery)) :
          FirstField(st) = W_SHOW /\ st # vquery

\* C4: under a policy with AllowUnsafeMode=true ValidateSQL passes whatever
\* the text: empty, starting with a blocked verb, matching a dangerous pattern.
C4_UnsafePassesAll ==
    (Validated /\ vresult.unsafe) => vresult.outcome = Pass

\* a blocked verb followed by a stacked DROP has passed in unsafe mode
C4_Witness ==
    /\ Validated
    /\ vresult.unsafe
    /\ vresult.outcome = Pass
    /\ LeadingVerb(vquery) = W_TRUNCATE
    /\ MatchStacked(ToUpper(vquery))

\* C5: the validator in use is the one selected by the mode switch that
\* returned last (Safe before any switch): IsUnsafeModeEnabled() says so, and a
\* query with a blocked leading verb, such as DELETE FROM users WHERE id=1,
\* validated after that switch passes if it was EnableUnsafeMode and fails with
\* BlockedOperation otherwise.
C5_LastSwitchApplies ==
    /\ IsUnsafeModeEnabled = (hist.lastSwitch = "enable")
    /\ (Validated /\ LeadingVerb(vquery) \in BlockedVerbs) =>
           IF vresult.after.last = "enable"
           THEN vresult.outcome = Pass
           ELSE vresult.outcome.kind = "BlockedOperation"

\* DELETE FROM users WHERE id=1 has failed again after an EnableUnsafeMode
\* followed by a DisableUnsafeMode
C5_Witness ==
    /\ Validated
    /\ vquery = Str_DeleteUser
    /\ vresult.after = [last |-> "disable", everEnabled |-> TRUE]
    /\ hist.lastSwitch = "disable"
    /\ vresult.outcome.kind = "BlockedOperation"

Range(f) == {f[i] : i \in DOMAIN f}

\* C6: in every state of a manager GetAllowedOperations() is ["ALL_OPERATIONS"]
\* and GetBlockedOperations() is empty while unsafe mode is enabled, and they
\* are the Safe lists while it is disabled, also after Enable then Disable.
C6_PolicyGetters ==
    ctor = "done" =>
        IF IsUnsafeModeEnabled
        THEN /\ GetAllowedOperations = <<W_ALL_OPERATIONS>>
             /\ GetBlockedOperations = <<>>
        ELSE /\ Range(GetAllowedOperations) = AllowedVerbs
             /\ Len(GetAllowedOperations) = 4
             /\ Range(GetBlockedOperations) = BlockedVerbs
             /\ Len(GetBlockedOperations) = 9

\* unsafe mode is disabled again after having been enabled
C6_Witness ==
    /\ ctor = "done"
    /\ hist.lastSwitch = "disable"
    /\ hist.everEnabled
    /\ ~IsUnsafeModeEnabled
    /\ Len(GetAllowedOperations) = 4

\* a required field of the configuration is empty or zero
Incomplete(c) ==
    \/ c.Host = "" \/ c.Port = 0 \/ c.Username = "" \/ c.Password = ""
    \/ c.DBName = ""

\* no manager exists: no field of it was set, no goroutine runs, nobody calls it
NoManager ==
    /\ ~connected /\ db = "nil" /\ lastError = "nil"
    /\ reconnectTicker = "nil" /\ loop.pc = "none" /\ ~loop.tick
    /\ stopReconnect = 0
    /\ callers = [r \in {Idle} |-> NumCallers]

\* C7: NewEnhanced with host, port, username, password or database name empty
\* or zero fails with the configuration error and returns no manager, without
\* any connect() attempt and without starting the reconnection loop.
C7_IncompleteConfigFails ==
    (Incomplete(cfg) /\ ctor # "start") =>
        /\ ctor = "failed"
        /\ hist.ctorConnects = 0
        /\ NoManager

\* construction has failed on a configuration that lacks only the password
C7_Witness ==
    /\ ctor = "failed"
    /\ cfg.Password = ""
    /\ cfg.Host # "" /\ cfg.Port # 0 /\ cfg.Username # "" /\ cfg.DBName # ""
    /\ hist.ctorConnects = 0

\* C8: NewEnhanced with a complete configuration calls connect() exactly once
\* and returns a manager; when that connect() fails (the store is unreachable)
\* the manager returned is Disconnected, lastError is recorded and the
\* reconnection loop is started.
C8_ConstructionSurvivesFailedConnect ==
    /\ []((~Incomplete(cfg) /\ ctor # "start") =>
              (ctor = "done" /\ hist.ctorConnects = 1))
    /\ [][(ctor = "start" /\ ctor' # "start" /\ ~Incomplete(cfg) /\ ~storeUp) =>
              /\ ctor' = "done"
              /\ ~IsConnected'
              /\ lastError' # "nil"
              /\ db' = "nil"
              /\ reconnectTicker' = "running"
              /\ loop'.pc = "select"]_vars

\* the manager as returned by a construction whose connect() failed
C8_Witness ==
    /\ ctor = "done"
    /\ hist.ctorConnects = 1
    /\ ~connected
    /\ lastError = "err"
    /\ reconnectTicker = "running"
    /\ loop = [pc |-> "select", tick |-> FALSE]
    /\ callers = [r \in {Idle} |-> NumCallers]

\* the reconnection loop was started (the first connect() failed)
LoopStarted == loop.pc # "none"

\* C9: a manager whose first connect() failed is Disconnected when NewEnhanced
\* returns; a tick handler of the loop that finds it Disconnected calls
\* connect(), which leaves it Connected when the store is reachable; and with
\* the loop scheduled, unless Close() is called, a Disconnected manager whose
\* store is reachable becomes Connected (or the store is lost again) without
\* any caller action.
C9_LoopReconnects ==
    /\ [][(ctor = "start" /\ ctor' = "done" /\ ~storeUp) => ~IsConnected']_vars
    /\ [][(loop.pc = "check" /\ loop'.pc # "check" /\ ~IsConnected) =>
              loop'.pc = "connect"]_vars
    /\ [][(loop.pc = "ping" /\ loop'.pc # "ping" /\ storeUp) => IsConnected']_vars
    /\ ((LoopStarted /\ ~IsConnected /\ storeUp /\ ~hist.closeCalled)
           ~> (IsConnected \/ ~storeUp \/ hist.closeCalled))

\* the loop has connected a manager whose first connect() failed, and no
\* caller has done anything
C9_Witness ==
    /\ LoopStarted
    /\ connected
    /\ db = "open"
    /\ ~hist.closeCalled
    /\ callers = [r \in {Idle} |-> NumCallers]

\* C10 as claimed: whether the initial connect() succeeded or failed, once a
\* manager that was not closed is Disconnected, only the reconnection loop
\* makes it Connected again, and with the store reachable it does.
C10_AnyManagerRecovers ==
    /\ [][(~IsConnected /\ IsConnected') => (ctor = "start" \/ loop.pc = "ping")]_vars
    /\ ((ctor = "done" /\ ~IsConnected /\ storeUp /\ ~hist.closeCalled)
           ~> (IsConnected \/ ~storeUp \/ hist.closeCalled))

\* a caller in state r has taken a step (its record is in the bag fewer times)
Left(r) == CopiesIn(r, callers') < CopiesIn(r, callers)

\* a caller has arrived in state t
Gained(t) == CopiesIn(t, callers') > CopiesIn(t, callers)

\* C11: a HealthCheck that finds the manager Disconnected returns an error
\* at once and never pings; one that finds it Connected and takes the installed
\* handle pings it; a ping that succeeds changes neither the connection state
\* nor lastError and returns nil; a ping that fails sets the state to
\* Disconnected, records lastError and returns the ping error.
C11_HealthCheckContract ==
    /\ [](\A r \in BagToSet(callers) :
              (r.op = "HealthCheck" /\ r.pc = "done") =>
                  /\ r.err = Err("database not connected") => r.io = 0
                  /\ r.io = 0 => r.err # NoErr
                  /\ r.err = Err("database ping failed") => r.io = 1)
    /\ [][\A r \in BagToSet(callers) :
              /\ (CanCall(r) /\ Left(r) /\ ~IsConnected)
                      => \A t \in BagToSet(callers') :
                            (Gained(t) /\ t.op = "HealthCheck") =>
                                /\ t.pc = "done" /\ t.io = 0 /\ t.ref = "none"
                                /\ t.err = Err("database not connected")
              /\ (r.op = "HealthCheck" /\ r.pc = "handle" /\ Left(r) /\ db # "nil")
                      => CopiesIn([r EXCEPT !.pc = "ping", !.ref = "cur"], callers') > 0
              /\ (r.op = "HealthCheck" /\ r.pc = "ping" /\ Left(r))
                      => \A t \in BagToSet(callers') :
                            (/\ Gained(t) /\ t.op = "HealthCheck" /\ t.io = r.io + 1
                             /\ t.ref \in {r.ref, "none"}) =>
                                /\ UNCHANGED <<connected, lastError, db>>
                                /\ (HandleOpen(r.ref) /\ storeUp) =>
                                       (t.pc = "done" /\ t.err = NoErr)
                                /\ ~(HandleOpen(r.ref) /\ storeUp) => t.pc = "pingFailed"
              /\ (r.op = "HealthCheck" /\ r.pc = "pingFailed" /\ Left(r))
                      => LET returned == [r EXCEPT !.pc = "done", !.ref = "none",
                                                   !.err = Err("database ping failed")]
                         IN  \/ /\ Gained(returned)
                                /\ ~IsConnected'
                                /\ lastError' = "err"
                             \/ /\ r.ref = "cur"
                                /\ Gained([r EXCEPT !.ref = "stale"])
                                /\ db' # db]_vars

\* a HealthCheck on a Connected manager has pinged the installed handle while
\* the store was down: the manager is Disconnected, the error is recorded and
\* returned, and the handle is still installed
C11_Witness ==
    /\ ~connected
    /\ lastError = "err"
    /\ db = "open"
    /\ loop.pc = "none"
    /\ \E r \in BagToSet(callers) :
          /\ r.op = "HealthCheck" /\ r.pc = "done"
          /\ r.err = Err("database ping failed") /\ r.io = 1

\* a Close call waits in its send on stopReconnect while the slot is taken
\* and the loop, the only receiver, has exited
CloseStuck ==
    /\ stopReconnect = 1
    /\ loop.pc = "exited"
    /\ \E r \in BagToSet(callers) : r.op = "Close" /\ r.pc = "send"

\* C12 as claimed: no call of Close() waits for ever, however many Close()
\* calls came before it and wherever the loop is.
C12_CloseAlwaysReturns == ~CloseStuck

\* C15 as claimed: over all the Close() calls on a manager at most one stop
\* signal is sent, and none when the loop was never started.
C15_StopSignalledOnce ==
    /\ hist.signals <= 1
    /\ loop.pc = "none" => hist.signals = 0

\* C13 as claimed: a Query whose text passes validation on a Disconnected
\* manager returns the connection error without taking or using the handle,
\* and an error returned by Query is recognised as a security-validation error
\* if and only if ValidateSQL failed on the text under the policy the call read.
C13_ErrorsDistinguishable ==
    \A r \in BagToSet(callers) :
        (r.op = "Query" /\ r.pc = "done" /\ r.err # NoErr) =>
            /\ r.err = NotConnectedErr(r.query) => (r.io = 0 /\ r.ref = "none")
            /\ IsSecurityError(r.err)
                   <=> (ValidateSQLMemo[PolicyRead(r), r.query].kind # "pass")

\* the leading verb of a query as the client reads it: its first word, in upper case
ClientLeadingVerb(q) == ToUpper(FirstWord(TrimSpace(q)))

\* the tool has run a query on the client
ClientCalled == "last" \in DOMAIN client

\* C14 as claimed: with unsafe mode disabled the client uses the handle only
\* for a query whose leading verb is SELECT, SHOW, DESCRIBE or EXPLAIN; a query
\* with any other leading verb, in the blocked list or in no list, is
\* rejected by validateQuery and the handle is not used.
C14_ClientReadOnly ==
    (ClientCalled /\ ~client.last.unsafe) =>
        /\ client.last.used => ClientLeadingVerb(vquery) \in AllowedVerbs
        /\ ClientLeadingVerb(vquery) \notin AllowedVerbs =>
               (client.last.outcome # Pass /\ ~client.last.used)

\* C16: the loop returns only from its select, on a stop signal that a
\* Close() has sent; after a connect(), successful or failed, and after a tick
\* that found the manager Connected it is back at its select; and once Close()
\* has been called on a manager whose loop was started, the loop terminates.
C16_LoopStoppedOnlyByClose ==
    /\ [][(loop.pc # "exited" /\ loop'.pc = "exited") =>
              (loop.pc = "select" /\ stopReconnect > 0 /\ hist.signals > 0
               /\ hist.closeCalled)]_vars
    /\ [][(loop.pc = "ping" /\ loop'.pc # "ping") => loop'.pc = "select"]_vars
    /\ [][(loop.pc = "check" /\ loop'.pc # "check") =>
              loop'.pc = (IF IsConnected THEN "select" ELSE "connect")]_vars
    /\ ((LoopStarted /\ loop.pc \notin {"select", "exited"})
           ~> (loop.pc \in {"select", "exited"}))
    /\ ((LoopStarted /\ hist.closeCalled) ~> (loop.pc = "exited"))

\* the loop has reconnected the manager, gone on, and exited on the signal of
\* the one Close() that was called, which has not closed the handle yet
C16_Witness ==
    /\ loop.pc = "exited"
    /\ hist.signals = 1
    /\ stopReconnect = 0
    /\ reconnectTicker = "stopped"
    /\ connected
    /\ db = "open"

\* C17: whenever the manager is Connected a handle is installed that has not
\* been closed and lastError is nil; a connect() that succeeds (in NewEnhanced
\* or in the loop) installs the handle, sets Connected and clears lastError; a
\* connect() that fails leaves the manager Disconnected with lastError
\* recorded, and its caller goes on (NewEnhanced returns the manager, the loop
\* is back at its select).
C17_NeverPartiallyConnected ==
    /\ [](IsConnected => (db = "open" /\ lastError = "nil"))
    /\ [][(loop.pc = "ping" /\ loop'.pc # "ping") =>
              /\ loop'.pc = "select"
              /\ IF storeUp
                 THEN IsConnected' /\ lastError' = "nil" /\ db' = "open"
                 ELSE ~IsConnected' /\ lastError' = "err"]_vars
    /\ [][(ctor = "start" /\ ctor' = "done") =>
              IF storeUp
              THEN IsConnected' /\ lastError' = "nil" /\ db' = "open"
              ELSE ~IsConnected' /\ lastError' = "err"]_vars

\* the loop has reconnected a manager after a failed HealthCheck had recorded
\* its error: Connected, handle installed, lastError cleared
C17_Witness ==
    /\ LoopStarted
    /\ connected
    /\ db = "open"
    /\ lastError = "nil"
    /\ \E r \in BagToSet(callers) :
          r.op = "HealthCheck" /\ r.pc = "done" /\ r.err = Err("database ping failed")

\* C18 as claimed: a mode switch replaces edb.sqlValidator holding the write
\* lock mu, and ExecuteQuery reads it holding the read lock, so neither takes
\* place while connect() holds the write lock.
C18_PolicyUnderLock ==
    [][/\ sqlValidator' # sqlValidator => mu = "free"
       /\ (\E r \in BagToSet(callers), t \in BagToSet(callers') :
              CanCall(r) /\ Left(r) /\ Gained(t) /\ t.op = "Query") => mu = "free"]_vars

\* a caller is at a step that takes the read lock (IsConnected, or the copy of
\* the handle) while connect() holds the write lock: it waits
ReaderWaits ==
    /\ mu = "w"
    /\ \E r \in BagToSet(callers) :
          r.op \in {"Query", "HealthCheck"} /\ r.pc \in {"isConnected", "handle"}

\* C19 as claimed: a query or a ping in progress on a copy of the handle
\* never keeps connect() from the write lock, and a connect() in progress, its
\* ping included, never makes a Query, HealthCheck or IsConnected caller wait.
C19_NeitherSideBlocks ==
    /\ (loop.pc = "connect"
        /\ \E r \in BagToSet(callers) : r.pc \in {"exec", "ping"}) => mu = "free"
    /\ ~ReaderWaits

\* the text has a semicolon followed, after optional white space, by verb v
StackedVerb(s, v) ==
    \E i \in 1..Len(s) :
        /\ s[i] = ";"
        /\ \E j \in (i + 1)..Len(s) :
              /\ \A k \in (i + 1)..(j - 1) : IsReSpace(s[k])
              /\ At(s, j, v)

\* C20 as claimed: under the Safe policy a query with an allowed leading verb
\* that has a semicolon followed by any of the nine blocked verbs of the policy
\* fails ValidateSQL with DangerousPattern.
C20_StackedBlockedFails ==
    (/\ Validated /\ ~vresult.unsafe
     /\ LeadingVerb(vquery) \in AllowedVerbs
     /\ \E v \in BlockedVerbs : StackedVerb(ToUpper(vquery), v))
        => vresult.outcome.kind = "DangerousPattern"

\* verb w stands at position j of the text as a word of its own
KeywordAt(s, j, w) ==
    /\ At(s, j, w)
    /\ (j = 1 \/ ~IsWordChar(s[j - 1]))
    /\ (j + Len(w) > Len(s) \/ ~IsWordChar(s[j + Len(w)]))

\* a blocked verb of the Safe policy stands as a word somewhere after a UNION
BlockedVerbAfterUnion(s) ==
    \E i \in 1..Len(s) :
        /\ At(s, i, W_UNION)
        /\ \E j \in (i + 5)..Len(s) : \E w \in BlockedVerbs : KeywordAt(s, j, w)

\* C21 as claimed: under the Safe policy a query with an allowed leading verb
\* that contains UNION, and that no other dangerous-pattern rule matches, fails
\* with DangerousPattern if and only if one of the nine blocked verbs stands
\* as a word after the UNION, whatever lies in between.
C21_UnionRule ==
    LET text == ToUpper(vquery)
    IN  (/\ Validated /\ ~vresult.unsafe
         /\ LeadingVerb(vquery) \in AllowedVerbs
         /\ Contains(text, W_UNION)
         /\ ~MatchStacked(text) /\ ~MatchStoredProc(text)
         /\ ~MatchFileSystem(text) /\ ~MatchTiming(text))
            => (vresult.outcome.kind = "DangerousPattern" <=> BlockedVerbAfterUnion(text))

\* C22 as claimed: the dangerous-pattern rules see the comment-stripped working
\* copy, so a query that reaches them under the Safe policy fails with
\* DangerousPattern exactly when one of the rules matches its text with the
\* comments removed; text inside a comment never causes the failure.
C22_PatternsOnStrippedCopy ==
    (/\ Validated /\ ~vresult.unsafe
     /\ vresult.outcome.kind \in {"pass", "DangerousPattern"})
        => (vresult.outcome.kind = "DangerousPattern"
               <=> MatchesDangerousPattern(removeComments(TrimSpace(ToUpper(vquery)))))

\* end of the block comment opening at i (0 when it is never closed), the
\* closing mark sought over the lines that follow as well
CommentCloses(s, i) ==
    LET ends == {j \in (i + 2)..Len(s) : At(s, j, <<"*", "/">>)}
    IN  IF ends = {} THEN 0
        ELSE (CHOOSE j \in ends : \A k \in ends : j <= k) + 1

\* first position at or after i that holds a newline (Len(s) + 1 when none)
LineEnd(s, i) ==
    LET nls == {j \in i..Len(s) : s[j] = "\n"}
    IN  IF nls = {} THEN Len(s) + 1
        ELSE CHOOSE j \in nls : \A k \in nls : j <= k

\* the text without its comments: every -- comment removed up to the end of
\* its line, every /*...*/ comment removed, also one that spans lines
RECURSIVE WithoutComments(_, _)
WithoutComments(s, i) ==
    IF i > Len(s) THEN <<>>
    ELSE IF At(s, i, <<"-", "-">>) THEN WithoutComments(s, LineEnd(s, i))
    ELSE IF At(s, i, <<"/", "*">>) /\ CommentCloses(s, i) > 0
    THEN WithoutComments(s, CommentCloses(s, i) + 1)
    ELSE <<s[i]>> \o WithoutComments(s, i + 1)

\* the verb of a query as claimed: the first word of the upper-cased text
\* without its comments
ClaimedVerb(q) == FirstField(WithoutComments(ToUpper(q), 1))

\* C23 as claimed: for every query, multi-line text included, the verb
\* ValidateSQL checks under the Safe policy is the first white-space-delimited
\* word of the upper-cased text without its -- comments (each up to the end of
\* its line) and its block comments (also over several lines): a failure on
\* the verb names that word, and a query that gets past the verb checks has
\* that word in the allowed list.
C23_VerbAfterComments ==
    (Validated /\ ~vresult.unsafe) =>
        /\ vresult.outcome.kind \in {"BlockedOperation", "NotAllowed"}
               => vresult.outcome.operation = ClaimedVerb(vquery)
        /\ vresult.outcome.kind \in {"pass", "DangerousPattern"}
               => ClaimedVerb(vquery) \in AllowedVerbs

\* the upper-cased entries of a list of operations
UpperSet(list) == {ToUpper(list[i]) : i \in 1..Len(list)}

\* C24: with unsafe mode off the outcome of ValidateSQL is that of the first
\* failing step in the order EmptyQuery (no character but white space),
\* BlockedOperation (verb in BlockedOperations, also when it is in
\* AllowedOperations too), NotAllowed (AllowedOperations not empty and the
\* verb not in it), DangerousPattern; so a pass has its verb in a non-empty
\* AllowedOperations, and a blocked verb with a dangerous pattern behind it
\* reports BlockedOperation.
C24_FirstFailingStep ==
    LET kind == vresult.outcome.kind
        verb == ClaimedVerb(vquery)
        empty == \A i \in 1..Len(vquery) : IsSpace(vquery[i])
        blocked == verb \in UpperSet(sqlValidator.BlockedOperations)
        notAllowed == /\ sqlValidator.AllowedOperations # <<>>
                      /\ verb \notin UpperSet(sqlValidator.AllowedOperations)
        dangerous == MatchesDangerousPattern(TrimSpace(ToUpper(vquery)))
    IN  (Validated /\ ~sqlValidator.AllowUnsafeMode) =>
            /\ kind = (IF empty THEN "EmptyQuery"
                       ELSE IF blocked THEN "BlockedOperation"
                       ELSE IF notAllowed THEN "NotAllowed"
                       ELSE IF dangerous THEN "DangerousPattern"
                       ELSE "pass")
            /\ kind \in {"BlockedOperation", "NotAllowed"}
                   => vresult.outcome.operation = verb
            /\ (kind = "pass" /\ sqlValidator.AllowedOperations # <<>>)
                   => verb \in UpperSet(sqlValidator.AllowedOperations)

\* a DELETE that is in both lists of the policy, with a stacked DROP behind it,
\* has been reported as a blocked operation
C24_Witness ==
    /\ Validated
    /\ W_DELETE \in UpperSet(sqlValidator.AllowedOperations)
    /\ W_DELETE \in UpperSet(sqlValidator.BlockedOperations)
    /\ ClaimedVerb(vquery) = W_DELETE
    /\ MatchStacked(ToUpper(vquery))
    /\ vresult.outcome.kind = "BlockedOperation"

\* what the validation of a Query call returned: the outcome inside the
\* validation error, or a pass when the call went on or ended otherwise
ValidationOf(r) ==
    IF r.pc = "done" /\ r.err.msg = "SQL security validation failed"
    THEN r.err.cause
    ELSE Pass

\* a caller at rest has entered Query: the step that validates
ValidationStep ==
    \E r \in BagToSet(callers) :
        /\ CanCall(r)
        /\ Left(r)
        /\ \E t \in BagToSet(callers') : Gained(t) /\ t.op = "Query"

C26_ClientBlockedEmptyIffUnsafe ==
    client.db # "nil" => (ClientGetBlockedOperations = <<>> <=> client.unsafeMode)

\* a Close() call has returned and its caller has made no call since
CloseReturned == \E r \in BagToSet(callers) : r.op = "Close" /\ r.pc = "done"

\* C27 as claimed: once Close() has returned the manager is Disconnected and
\* has no handle installed, whatever the reconnection loop was doing when
\* Close() ran.
C27_ClosedStaysClosed == CloseReturned => (~connected /\ db = "nil")

\* C28 as claimed: a HealthCheck whose ping failed marks the manager
\* Disconnected only if the handle it pinged is still the installed one; the
\* failure of a ping on a handle that connect() has replaced since leaves a
\* Connected manager Connected.  Stated for a manager on which Close() has
\* not been called, so that only connect() can have replaced the handle.
C28_StalePingKeepsConnected ==
    [][\A r \in BagToSet(callers) :
          (/\ r.op = "HealthCheck" /\ r.pc = "pingFailed" /\ r.ref = "stale"
           /\ Left(r)
           /\ ~hist.closeCalled
           /\ connected)
              => connected']_vars

\* C29 as claimed: the handle a Query executes its statement on is open at the
\* moment of the execution: a call about to execute holds a copy of the
\* installed handle, and that handle is open.
C29_QueryOnOpenHandle ==
    \A r \in BagToSet(callers) :
        (r.op = "Query" /\ r.pc = "exec") => HandleOpen(r.ref)

\* the connection side of the manager: the flag, the handle, the error, the
\* lock, the reconnection loop with its ticker and stop channel
connectionState ==
    <<connected, db, lastError, mu, loop, reconnectTicker, stopReconnect>>

\* C30: the policy and the connection state do not touch each other: the
\* policy in force is the one the last mode switch installed (the Safe one
\* when there was none), whatever connect(), HealthCheck(), ticks and Close()
\* have done since; a mode switch leaves connected, the handle, lastError, the
\* lock and the reconnection loop as they were, and a step that changes any of
\* these leaves the policy as it was.
C30_PolicyAndConnectionIndependent ==
    /\ [](ctor = "done" =>
             sqlValidator = IF hist.lastSwitch = "enable"
                            THEN NewUnsafeSQLValidator ELSE NewSQLValidator)
    /\ [][/\ ((hist.lastSwitch' # hist.lastSwitch \/ sqlValidator' # sqlValidator)
                  => UNCHANGED <<connectionState, callers>>)
           /\ ((ctor = "done" /\ connectionState' # connectionState)
                  => UNCHANGED sqlValidator)]_vars

\* a manager switched to unsafe mode that the loop has connected, on which a
\* HealthCheck has failed its ping and a Close has returned: it is still Unsafe
C30_Witness ==
    /\ IsUnsafeModeEnabled
    /\ hist.lastSwitch = "enable"
    /\ loop.pc # "none"
    /\ db = "nil"
    /\ lastError = "err"
    /\ \E r \in BagToSet(callers) :
          r.op = "HealthCheck" /\ r.pc = "done" /\ r.io = 1 /\ r.err # NoErr
    /\ \E r \in BagToSet(callers) : r.op = "Close" /\ r.pc = "done"

====
